---- MODULE Spec2Model ----
(***************************************************************************)
(* Murph: a browser client (src/src/App.tsx) that uploads a text document, *)
(* has it synthesized through /api/tts/convert and plays it back, and the  *)
(* serverless proxy handlers (src/api/tts/convert.js, voices.js).          *)
(*                                                                         *)
(* Spec        the client's playback controller (App component)           *)
(* LiveSpec    the controller where every read and every request settles  *)
(* ListenSpec  the client's speed control and voice commands               *)
(* SessionSpec the recognition sessions of the page without a document     *)
(* ConvertSpec the handlers of POST /api/tts/convert, one request each     *)
(* VoicesSpec  the handler of GET /api/tts/voices, one request each        *)
(* ProxySpec   one request to either route                                 *)
(* ApiSpec     one request to any handler, the debug endpoint included     *)
(***************************************************************************)
EXTENDS Bags, FiniteSets, Integers, Sequences, TLC

----------------------------------------------------------------------------
(* Bounds of the model *)

\* synthesis requests (fetch of /api/tts/convert) that may be in flight
MaxFetches == 2
\* FileReader reads that may be in flight
MaxReads == 1
\* handlePlay continuations that may wait on audio.play()
MaxPlayPromises == 1
\* length of a synthesized audio, in timeupdate ticks
Duration == 1
\* recognizer events that may wait for their dispatch
MaxEvents == 4

----------------------------------------------------------------------------
(* Values *)

\* null of a nullable React state / an absent JSON field: the empty tuple;
\* a present value v is <<v>>
Null == <<>>

Some(v) == <<v>>

\* the files a user may select: { name, content } of the File
Files ==
    { [name |-> "a.txt", content |-> "alpha"],
      [name |-> "b.md", content |-> "beta"] }

\* the fallback catalogue of voices.js, in its order
DefaultVoices ==
    << [id |-> "21m00Tcm4TlvDq8ikWAM", name |-> "Rachel", category |-> "premade"],
       [id |-> "AZnzlk1XvdvUeBnXmlld", name |-> "Domi", category |-> "premade"],
       [id |-> "EXAVITQu4vr4xnSDxMaL", name |-> "Bella", category |-> "premade"],
       [id |-> "MF3mGyEYCl7XYWbV9V6O", name |-> "Elli", category |-> "premade"],
       [id |-> "TxGEqnHWrfWFTfGW9XjX", name |-> "Josh", category |-> "premade"],
       [id |-> "VR6AewLTigWG4xSOukaG", name |-> "Arnold", category |-> "premade"],
       [id |-> "pNInz6obpgDQGcFmaJgB", name |-> "Adam", category |-> "premade"],
       [id |-> "yoZ06aMxZJJ28mfd3POQ", name |-> "Sam", category |-> "premade"] >>

\* the default voice of the client and of the convert handlers
RachelId == "21m00Tcm4TlvDq8ikWAM"

----------------------------------------------------------------------------
(* State of the client (App component) *)

VARIABLES
    appState,           \* useState<AppState>
    document,           \* useState<DocumentState | null>: Null or <<file>>
    audioUrl,           \* useState<string | null>: Null or <<url>>
    progress,           \* useState(0), percent
    statusMessage,      \* useState('')
    selectedVoice,      \* useState(RachelId)
    playbackSpeed,      \* useState(1), in quarters: 4 is 1.0
    voices,             \* useState<Voice[]>([])
    isLoadingVoices,    \* useState(false), true while fetchVoices runs
    isConverting,       \* useState(false)
    showVoiceDropdown,  \* useState(false)
    audio,              \* the <audio> element behind audioRef
    fetches,            \* bag of /api/tts/convert requests in flight
    reads,              \* bag of files being read by a FileReader
    playPromises        \* handlePlay continuations awaiting audio.play()

clientVars ==
    << appState, document, audioUrl, progress, statusMessage, selectedVoice,
       playbackSpeed, voices, isLoadingVoices, isConverting, showVoiceDropdown,
       audio, fetches, reads, playPromises >>

----------------------------------------------------------------------------
(* State of one invocation of a serverless handler *)

VARIABLES
    env,            \* process.env.ELEVENLABS_API_KEY: Null or <<key>>
    request,        \* the inbound request: [method, url, body]
    upstream,       \* what the provider does with a call, if one is made
    upstreamCalls,  \* the calls the handler made to the provider, in order
    response,       \* Null, or <<the response the handler returned>>
    handledBy       \* the handler that answered

proxyVars == << env, request, upstream, upstreamCalls, response, handledBy >>

\* history of the client: the voice was changed while cached audio existed
\* and no play request was made since
VARIABLE voiceChangedSincePlay

----------------------------------------------------------------------------
(* State of the client's voice commands *)

VARIABLES
    isListening,    \* useState(false)
    recognition,    \* the recognizer behind recognitionRef: [closure, started]
    effect,         \* Null, or <<closure>> of the render whose recognition
                    \* effect (lines 114-162) is committed and yet to run
    events          \* the error and end events of recognizers that ended,
                    \* in the order they are dispatched

listenVars == << isListening, recognition, effect, events >>

\* what a step of the playback controller leaves alone
frameVars == << proxyVars, voiceChangedSincePlay, listenVars >>

vars == << clientVars, proxyVars, voiceChangedSincePlay, listenVars >>

----------------------------------------------------------------------------
(* The <audio> element, as the handlers drive it *)

\* the catalogue GET /api/tts/voices answers the client with
ClientCatalogue == << DefaultVoices[1], DefaultVoices[2] >>

\* playbackSpeed and playbackRate are counted in quarters: 4 is 1.0
DefaultRate == 4

\* audio.pause()
AudioPause(a) == [a EXCEPT !.paused = TRUE]

\* audio.play(): playback starts, from the beginning when it had ended
AudioPlay(a) ==
    [a EXCEPT !.paused = FALSE,
              !.currentTime = IF @ = Duration THEN 0 ELSE @]

\* audio.src = src: the element loads the new resource
AudioLoad(a, src) ==
    [src |-> src, paused |-> TRUE, currentTime |-> 0, playbackRate |-> DefaultRate]

\* URL.createObjectURL(blob): the handle of the audio synthesized for request r
ObjectUrl(r) == [text |-> r.text, voiceId |-> r.voiceId]

----------------------------------------------------------------------------
(* Initial state of the client: the component is mounted and fetchVoices runs *)

ClientInit ==
    /\ appState = "idle"
    /\ document = Null
    /\ audioUrl = Null
    /\ progress = 0
    /\ statusMessage = ""
    /\ selectedVoice = RachelId
    /\ playbackSpeed = DefaultRate
    /\ voices = <<>>
    /\ isLoadingVoices = TRUE
    /\ isConverting = FALSE
    /\ showVoiceDropdown = FALSE
    /\ audio = [src |-> Null, paused |-> TRUE, currentTime |-> 0,
                playbackRate |-> DefaultRate]
    /\ fetches = EmptyBag
    /\ reads = EmptyBag
    /\ playPromises = 0

\* what the handlers the recognition effect creates in a render close over:
\* handlePlay's document, audioUrl and selectedVoice, playbackSpeed,
\* isListening
Closure(doc, url, voice, speed, listening) ==
    [document |-> doc, audioUrl |-> url, selectedVoice |-> voice,
     playbackSpeed |-> speed, isListening |-> listening]

\* the recognition effect of the first render has run: a recognizer exists
\* and is not started
ListenInit ==
    /\ isListening = FALSE
    /\ recognition = [closure |-> Closure(Null, Null, RachelId, DefaultRate, FALSE),
                      started |-> FALSE]
    /\ effect = Null
    /\ events = <<>>

----------------------------------------------------------------------------
(* fetchVoices, the mount effect *)

\* response.ok: setVoices(data)
FetchVoicesSucceeds ==
    /\ isLoadingVoices
    /\ voices' = ClientCatalogue
    /\ isLoadingVoices' = FALSE
    /\ UNCHANGED << appState, document, audioUrl, progress, statusMessage,
                    selectedVoice, playbackSpeed, isConverting,
                    showVoiceDropdown, audio, fetches, reads, playPromises >>

\* the fetch throws or the response is not ok: voices stays []
FetchVoicesFails ==
    /\ isLoadingVoices
    /\ isLoadingVoices' = FALSE
    /\ UNCHANGED << appState, document, audioUrl, progress, statusMessage,
                    selectedVoice, playbackSpeed, voices, isConverting,
                    showVoiceDropdown, audio, fetches, reads, playPromises >>

----------------------------------------------------------------------------
(* handleFileUpload *)

\* the change event of the file input, up to the await of the read
HandleFileUpload(file) ==
    /\ BagCardinality(reads) < MaxReads
    /\ appState' = "uploading"
    /\ statusMessage' = "Reading document..."
    /\ audioUrl' = Null
    /\ reads' = reads (+) SetToBag({file})
    /\ UNCHANGED << document, progress, selectedVoice, playbackSpeed, voices,
                    isLoadingVoices, isConverting, showVoiceDropdown, audio,
                    fetches, playPromises >>

\* reader.onload: the rest of the try block
FileReadSucceeds(file) ==
    /\ BagIn(file, reads)
    /\ reads' = reads (-) SetToBag({file})
    /\ document' = Some(file)
    /\ appState' = "ready"
    /\ statusMessage' = "Document ready. Click Play to listen."
    /\ UNCHANGED << audioUrl, progress, selectedVoice, playbackSpeed, voices,
                    isLoadingVoices, isConverting, showVoiceDropdown, audio,
                    fetches, playPromises >>

\* reader.onerror: the catch block
FileReadFails(file) ==
    /\ BagIn(file, reads)
    /\ reads' = reads (-) SetToBag({file})
    /\ appState' = "error"
    /\ statusMessage' = "Failed to read document"
    /\ UNCHANGED << document, audioUrl, progress, selectedVoice, playbackSpeed,
                    voices, isLoadingVoices, isConverting, showVoiceDropdown,
                    audio, fetches, playPromises >>

----------------------------------------------------------------------------
(* handlePlay *)

\* the request handlePlay sends, with the playbackSpeed its closure holds
ConvertRequest(doc, voice, speed) ==
    [text |-> doc.content, voiceId |-> voice, playbackSpeed |-> speed]

\* lines 197-203 up to the await: the cached audio is played again
PlayCached(speed) ==
    /\ playPromises < MaxPlayPromises
    /\ audio' = AudioPlay([audio EXCEPT !.playbackRate = speed])
    /\ playPromises' = playPromises + 1
    /\ UNCHANGED << appState, document, audioUrl, progress, statusMessage,
                    selectedVoice, playbackSpeed, voices, isLoadingVoices,
                    isConverting, showVoiceDropdown, fetches, reads >>

\* lines 205-214 up to the await: a synthesis request is sent
StartSynthesis(doc, voice, speed) ==
    /\ BagCardinality(fetches) < MaxFetches
    /\ appState' = "processing"
    /\ statusMessage' = "Converting to audio..."
    /\ isConverting' = TRUE
    /\ fetches' = fetches (+) SetToBag({ConvertRequest(doc, voice, speed)})
    /\ UNCHANGED << document, audioUrl, progress, selectedVoice, playbackSpeed,
                    voices, isLoadingVoices, showVoiceDropdown, audio, reads,
                    playPromises >>

\* handlePlay as a closure over (document, audioUrl, selectedVoice,
\* playbackSpeed) of the render that created it
HandlePlay(doc, url, voice, speed) ==
    IF doc = Null
    THEN UNCHANGED clientVars
    ELSE IF url # Null
         THEN PlayCached(speed)
         ELSE StartSynthesis(doc[1], voice, speed)

\* the play promise of line 199 resolves: lines 200-202
PlayResolved ==
    /\ playPromises > 0
    /\ playPromises' = playPromises - 1
    /\ appState' = "playing"
    /\ statusMessage' = "Playing..."
    /\ UNCHANGED << document, audioUrl, progress, selectedVoice, playbackSpeed,
                    voices, isLoadingVoices, isConverting, showVoiceDropdown,
                    audio, fetches, reads >>

\* the response of request r is ok: lines 218-235 and the finally block
SynthesisSucceeds(r) ==
    /\ BagIn(r, fetches)
    /\ fetches' = fetches (-) SetToBag({r})
    /\ audioUrl' = Some(ObjectUrl(r))
    /\ audio' = AudioPlay([AudioLoad(audio, Some(ObjectUrl(r)))
                              EXCEPT !.playbackRate = r.playbackSpeed])
    /\ playPromises' = 0
    /\ appState' = "playing"
    /\ statusMessage' = "Playing..."
    /\ isConverting' = FALSE
    /\ UNCHANGED << document, progress, selectedVoice, playbackSpeed, voices,
                    isLoadingVoices, showVoiceDropdown, reads >>

SynthesisFailsSilently(r) ==
    /\ BagIn(r, fetches)
    /\ fetches' = fetches (-) SetToBag({r})
    /\ isConverting' = FALSE
    /\ UNCHANGED << appState, statusMessage, document, audioUrl, progress,
                    selectedVoice, playbackSpeed, voices, isLoadingVoices,
                    showVoiceDropdown, audio, reads, playPromises >>

\* the fetch of request r throws or its response is not ok: the catch and
\* the finally block
SynthesisFails(r) ==
    /\ BagIn(r, fetches)
    /\ fetches' = fetches (-) SetToBag({r})
    /\ appState' = "error"
    /\ statusMessage' = "Failed to generate audio"
    /\ isConverting' = FALSE
    /\ UNCHANGED << document, audioUrl, progress, selectedVoice, playbackSpeed,
                    voices, isLoadingVoices, showVoiceDropdown, audio, reads,
                    playPromises >>

----------------------------------------------------------------------------
(* handlePause, handleStop, the audio element's events *)

\* handlePause (audioRef.current is the <audio> element of every render)
HandlePause ==
    /\ audio' = AudioPause(audio)
    /\ playPromises' = 0
    /\ appState' = "paused"
    /\ statusMessage' = "Paused"
    /\ UNCHANGED << document, audioUrl, progress, selectedVoice, playbackSpeed,
                    voices, isLoadingVoices, isConverting, showVoiceDropdown,
                    fetches, reads >>

\* handleStop
HandleStop ==
    /\ audio' = [AudioPause(audio) EXCEPT !.currentTime = 0]
    /\ playPromises' = 0
    /\ appState' = "ready"
    /\ progress' = 0
    /\ statusMessage' = "Stopped"
    /\ UNCHANGED << document, audioUrl, selectedVoice, playbackSpeed, voices,
                    isLoadingVoices, isConverting, showVoiceDropdown, fetches,
                    reads >>

\* playback advances and the timeupdate event runs handleTimeUpdate (the
\* element settles a pending play() before it reports progress)
HandleTimeUpdate ==
    /\ playPromises = 0
    /\ ~audio.paused
    /\ audio.src # Null
    /\ audio.currentTime < Duration
    /\ audio' = [audio EXCEPT !.currentTime = @ + 1]
    /\ progress' = ((audio.currentTime + 1) * 100) \div Duration
    /\ UNCHANGED << appState, document, audioUrl, statusMessage, selectedVoice,
                    playbackSpeed, voices, isLoadingVoices, isConverting,
                    showVoiceDropdown, fetches, reads, playPromises >>

\* playback reaches the end: the element pauses and the ended event runs
\* handleAudioEnded
HandleAudioEnded ==
    /\ playPromises = 0
    /\ ~audio.paused
    /\ audio.src # Null
    /\ audio.currentTime = Duration
    /\ audio' = AudioPause(audio)
    /\ appState' = "ready"
    /\ progress' = 0
    /\ statusMessage' = "Playback complete"
    /\ UNCHANGED << document, audioUrl, selectedVoice, playbackSpeed, voices,
                    isLoadingVoices, isConverting, showVoiceDropdown, fetches,
                    reads, playPromises >>

----------------------------------------------------------------------------
(* handleVoiceChange, clearDocument *)

\* handleVoiceChange
HandleVoiceChange(voiceId) ==
    /\ selectedVoice' = voiceId
    /\ showVoiceDropdown' = FALSE
    /\ audioUrl' = IF audioUrl # Null THEN Null ELSE audioUrl
    /\ UNCHANGED << appState, document, progress, statusMessage, playbackSpeed,
                    voices, isLoadingVoices, isConverting, audio, fetches,
                    reads, playPromises >>

ClearDocumentKeepsAudio ==
    /\ document' = Null
    /\ appState' = "idle"
    /\ progress' = 0
    /\ statusMessage' = ""
    /\ audio' = AudioLoad(AudioPause(audio), Null)
    /\ playPromises' = 0
    /\ UNCHANGED << audioUrl, selectedVoice, playbackSpeed, voices,
                    isLoadingVoices, isConverting, showVoiceDropdown, fetches,
                    reads >>

\* clearDocument
ClearDocument ==
    /\ document' = Null
    /\ audioUrl' = Null
    /\ appState' = "idle"
    /\ progress' = 0
    /\ statusMessage' = ""
    /\ audio' = AudioLoad(AudioPause(audio), Null)
    /\ playPromises' = 0
    /\ UNCHANGED << selectedVoice, playbackSpeed, voices, isLoadingVoices,
                    isConverting, showVoiceDropdown, fetches, reads >>

----------------------------------------------------------------------------
(* The controls the render offers (JSX of the App component) *)

\* the document card, with every control below, is rendered
DocumentCardShown == document # Null

\* the stop button is rendered and not disabled
StopButtonEnabled ==
    DocumentCardShown /\ appState \notin {"idle", "processing"}

\* the play/pause button is rendered and not disabled
PlayButtonEnabled ==
    DocumentCardShown /\ appState \notin {"processing", "uploading"}

\* the voices the open dropdown lists
VoiceOptions ==
    IF DocumentCardShown /\ showVoiceDropdown /\ Len(voices) > 0
    THEN { voices[i].id : i \in 1..Len(voices) }
    ELSE {}

\* no handler invocation is modelled next to the client
ProxyIdle ==
    /\ env = Null
    /\ request = [method |-> "", url |-> "", body |-> Null]
    /\ upstream = [fails |-> FALSE, status |-> 0]
    /\ upstreamCalls = <<>>
    /\ response = Null
    /\ handledBy = ""

\* fetchVoices gets its catalogue
VoicesArrive == FetchVoicesSucceeds /\ UNCHANGED frameVars

\* fetchVoices fails
VoicesFail == FetchVoicesFails /\ UNCHANGED frameVars

\* the file input fires change with a selected file
SelectFile ==
    /\ \E file \in Files : HandleFileUpload(file)
    /\ UNCHANGED frameVars

ReadCompletes ==
    /\ \E file \in Files : FileReadSucceeds(file)
    /\ UNCHANGED frameVars

ReadFails ==
    /\ \E file \in Files : FileReadFails(file)
    /\ UNCHANGED frameVars

\* the play/pause button shows Play
ClickPlay ==
    /\ PlayButtonEnabled
    /\ appState # "playing"
    /\ HandlePlay(document, audioUrl, selectedVoice, playbackSpeed)
    /\ voiceChangedSincePlay' = FALSE
    /\ UNCHANGED << proxyVars, listenVars >>

\* audio.play() of the cached path settles
PlayStarts == PlayResolved /\ UNCHANGED frameVars

\* the play/pause button shows Pause
ClickPause ==
    /\ PlayButtonEnabled
    /\ appState = "playing"
    /\ HandlePause
    /\ UNCHANGED frameVars

ClickStop == StopButtonEnabled /\ HandleStop /\ UNCHANGED frameVars

SynthesisCompletes ==
    /\ \E r \in BagToSet(fetches) : SynthesisSucceeds(r)
    /\ UNCHANGED frameVars

SynthesisErrors ==
    /\ \E r \in BagToSet(fetches) : SynthesisFails(r)
    /\ UNCHANGED frameVars

TimeUpdate == HandleTimeUpdate /\ UNCHANGED frameVars

AudioEnded == HandleAudioEnded /\ UNCHANGED frameVars

ToggleVoiceDropdown ==
    /\ DocumentCardShown
    /\ showVoiceDropdown' = ~showVoiceDropdown
    /\ UNCHANGED << appState, document, audioUrl, progress, statusMessage,
                    selectedVoice, playbackSpeed, voices, isLoadingVoices,
                    isConverting, audio, fetches, reads, playPromises >>
    /\ UNCHANGED frameVars

SelectVoice ==
    /\ \E voiceId \in VoiceOptions : HandleVoiceChange(voiceId)
    /\ voiceChangedSincePlay' =
           (voiceChangedSincePlay \/
                (audioUrl # Null /\ selectedVoice' # selectedVoice))
    /\ UNCHANGED << proxyVars, listenVars >>

ClickClear == DocumentCardShown /\ ClearDocument /\ UNCHANGED frameVars

Next ==
    \/ VoicesArrive
    \/ VoicesFail
    \/ SelectFile
    \/ ReadCompletes
    \/ ReadFails
    \/ ClickPlay
    \/ PlayStarts
    \/ SynthesisCompletes
    \/ SynthesisErrors
    \/ ClickPause
    \/ ClickStop
    \/ TimeUpdate
    \/ AudioEnded
    \/ ToggleVoiceDropdown
    \/ SelectVoice
    \/ ClickClear

Init ==
    ClientInit /\ ListenInit /\ ProxyIdle /\ voiceChangedSincePlay = FALSE

Spec == Init /\ [][Next]_vars

\* every read the FileReader was given and every fetch of /api/tts/convert
\* settles, with success or with failure
Settles ==
    /\ WF_vars(ReadCompletes \/ ReadFails)
    /\ WF_vars(SynthesisCompletes \/ SynthesisErrors)

\* the steps of the playback controller with the default voice, the list of
\* voices left to load
LiveNext ==
    \/ SelectFile
    \/ ReadCompletes
    \/ ReadFails
    \/ ClickPlay
    \/ PlayStarts
    \/ SynthesisCompletes
    \/ SynthesisErrors
    \/ ClickPause
    \/ ClickStop
    \/ TimeUpdate
    \/ AudioEnded
    \/ ClickClear

LiveSpec == Init /\ [][LiveNext]_vars /\ Settles

----------------------------------------------------------------------------
(* Voice commands: the recognition effect and toggleVoiceCommands *)

\* the useState values of the component; a handler that changes one of them
\* makes React render again
reactState ==
    << appState, document, audioUrl, progress, statusMessage, selectedVoice,
       playbackSpeed, voices, isLoadingVoices, isConverting, showVoiceDropdown,
       isListening >>

\* the dependencies of the recognition effect (line 162)
effectDeps == << playbackSpeed, isListening >>

\* the events of a recognizer: its handlers close over isListening
ErrorEvent(rec) == [type |-> "error", isListening |-> rec.closure.isListening]

EndEvent(rec) == [type |-> "end", isListening |-> rec.closure.isListening]

\* what a recognizer fires when its session is cut (abort(), or the service
\* ending it): end, which an error event may precede, as the browser has it;
\* a recognizer without a session fires nothing
AbortEvents(rec) ==
    IF rec.started
    THEN { << EndEvent(rec) >>, << ErrorEvent(rec), EndEvent(rec) >> }
    ELSE { <<>> }

\* the recognition effect of a committed render runs: the cleanup of the
\* previous run aborts the recognizer in recognitionRef, then a new one is
\* created with handlers closing over that render, and is not started
RecognitionEffect ==
    /\ effect # Null
    /\ recognition' = [closure |-> effect[1], started |-> FALSE]
    /\ \E ended \in AbortEvents(recognition) : events' = events \o ended
    /\ effect' = Null
    /\ UNCHANGED isListening

\* toggleVoiceCommands; start() throws on a recognizer that is started
ToggleVoiceCommands ==
    IF ~isListening
    THEN IF recognition.started
         THEN UNCHANGED listenVars
         ELSE /\ recognition' = [recognition EXCEPT !.started = TRUE]
              /\ isListening' = TRUE
              /\ effect' = Some(Closure(document, audioUrl, selectedVoice,
                                        playbackSpeed, TRUE))
              /\ UNCHANGED events
    ELSE /\ recognition' = [recognition EXCEPT !.started = FALSE]
         /\ events' = IF recognition.started
                      THEN Append(events, EndEvent(recognition))
                      ELSE events
         /\ isListening' = FALSE
         /\ effect' = Some(Closure(document, audioUrl, selectedVoice,
                                   playbackSpeed, FALSE))

\* onChange of the speed slider
HandleSpeedChange(speed) ==
    /\ playbackSpeed' = speed
    /\ audio' = [audio EXCEPT !.playbackRate = speed]
    /\ UNCHANGED << appState, document, audioUrl, progress, statusMessage,
                    selectedVoice, voices, isLoadingVoices, isConverting,
                    showVoiceDropdown, fetches, reads, playPromises >>

----------------------------------------------------------------------------
(* recognition.onresult *)

\* a transcript is the sequence of its characters
UpperCase ==
    << "A", "B", "C", "D", "E", "F", "G", "H", "I", "J", "K", "L", "M",
       "N", "O", "P", "Q", "R", "S", "T", "U", "V", "W", "X", "Y", "Z" >>

LowerCase ==
    << "a", "b", "c", "d", "e", "f", "g", "h", "i", "j", "k", "l", "m",
       "n", "o", "p", "q", "r", "s", "t", "u", "v", "w", "x", "y", "z" >>

\* transcript.toLowerCase()
ToLowerCase(text) ==
    [i \in 1..Len(text) |->
        IF \E k \in 1..26 : UpperCase[k] = text[i]
        THEN LowerCase[CHOOSE k \in 1..26 : UpperCase[k] = text[i]]
        ELSE text[i]]

\* text.trim()
Trim(text) ==
    LET inked == { i \in 1..Len(text) : text[i] # " " } IN
    IF inked = {} THEN <<>>
    ELSE SubSeq(text,
                CHOOSE i \in inked : \A j \in inked : i <= j,
                CHOOSE i \in inked : \A j \in inked : j <= i)

\* text.includes(word)
Includes(text, word) ==
    \E i \in 0..(Len(text) - Len(word)) :
        SubSeq(text, i + 1, i + Len(word)) = word

KeyPlay == << "p", "l", "a", "y" >>
KeyStart == << "s", "t", "a", "r", "t" >>
KeyPause == << "p", "a", "u", "s", "e" >>
KeyStop == << "s", "t", "o", "p" >>
KeyFaster == << "f", "a", "s", "t", "e", "r" >>
KeySpeedUp == << "s", "p", "e", "e", "d", " ", "u", "p" >>
KeySlower == << "s", "l", "o", "w", "e", "r" >>
KeySlowDown == << "s", "l", "o", "w", " ", "d", "o", "w", "n" >>

BranchPauseFirst(transcript) ==
    LET command == Trim(ToLowerCase(transcript)) IN
    IF Includes(command, KeyPause) \/ Includes(command, KeyStop) THEN "pause"
    ELSE IF Includes(command, KeyPlay) \/ Includes(command, KeyStart)
    THEN "play"
    ELSE IF Includes(command, KeyFaster) \/ Includes(command, KeySpeedUp)
    THEN "faster"
    ELSE IF Includes(command, KeySlower) \/ Includes(command, KeySlowDown)
    THEN "slower"
    ELSE "none"

\* the branch of the if / else-if chain of lines 126-142 a transcript takes
Branch(transcript) ==
    LET command == Trim(ToLowerCase(transcript)) IN
    IF Includes(command, KeyPlay) \/ Includes(command, KeyStart) THEN "play"
    ELSE IF Includes(command, KeyPause) \/ Includes(command, KeyStop)
    THEN "pause"
    ELSE IF Includes(command, KeyFaster) \/ Includes(command, KeySpeedUp)
    THEN "faster"
    ELSE IF Includes(command, KeySlower) \/ Includes(command, KeySlowDown)
    THEN "slower"
    ELSE "none"

\* the lowest and the highest playbackSpeed, in quarters
MinRate == 2

MaxRate == 8

FasterClampedAbove(speed) == IF speed + 1 < MaxRate + 1 THEN speed + 1 ELSE MaxRate + 1

\* Math.min(playbackSpeed + 0.25, 2)
Faster(speed) == IF speed + 1 < MaxRate THEN speed + 1 ELSE MaxRate

SlowerByHalf(speed) == IF speed - 2 > MinRate THEN speed - 2 ELSE MinRate

\* Math.max(playbackSpeed - 0.25, 0.5)
Slower(speed) == IF speed - 1 > MinRate THEN speed - 1 ELSE MinRate

\* the body of onresult, taking branch, as the recognizer's closure runs it
OnResult(branch, closure) ==
    CASE branch = "play" ->
            HandlePlay(closure.document, closure.audioUrl,
                       closure.selectedVoice, closure.playbackSpeed)
      [] branch = "pause" -> HandlePause
      [] branch = "faster" -> HandleSpeedChange(Faster(closure.playbackSpeed))
      [] branch = "slower" -> HandleSpeedChange(Slower(closure.playbackSpeed))
      [] OTHER -> UNCHANGED clientVars

----------------------------------------------------------------------------
(* The client with its speed control and voice commands.  React runs the   *)
(* effect of a committed render after the handler that caused the render,  *)
(* and before the next render or the next click or change event.           *)

\* the transcript "please play now"
PleasePlayNow ==
    << "p", "l", "e", "a", "s", "e", " ", "p", "l", "a", "y", " ", "n",
       "o", "w" >>

\* the transcript "Can you go slower"
CanYouGoSlower ==
    << "C", "a", "n", " ", "y", "o", "u", " ", "g", "o", " ", "s", "l",
       "o", "w", "e", "r" >>

\* the transcript " Pause "
PauseSpaced == << " ", "P", "a", "u", "s", "e", " " >>

\* the transcript "stop playing"
StopPlaying ==
    << "s", "t", "o", "p", " ", "p", "l", "a", "y", "i", "n", "g" >>

\* the transcript "stop"
StopNow == << "s", "t", "o", "p" >>

\* the transcript "speed up"
SpeedUp == << "s", "p", "e", "e", "d", " ", "u", "p" >>

\* the transcript "FASTER"
FasterLoud == << "F", "A", "S", "T", "E", "R" >>

\* the transcript "slow down"
SlowDown == << "s", "l", "o", "w", " ", "d", "o", "w", "n" >>

\* the transcript "start"
StartReading == << "s", "t", "a", "r", "t" >>

\* the transcript "hello"
Hello == << "h", "e", "l", "l", "o" >>

\* the transcript "go faster then slower"
FasterThenSlower ==
    << "g", "o", " ", "f", "a", "s", "t", "e", "r", " ", "t", "h", "e",
       "n", " ", "s", "l", "o", "w", "e", "r" >>

\* the final transcripts a recognizer may deliver
Transcripts ==
    { PleasePlayNow, CanYouGoSlower, PauseSpaced, StopPlaying, StopNow,
      SpeedUp, FasterLoud, SlowDown, StartReading, Hello, FasterThenSlower }

\* the branch of onresult each of the transcripts takes
BranchOf == [transcript \in Transcripts |-> Branch(transcript)]

\* the positions of the speed slider: min 0.5, max 2, step 0.25
SliderValues == MinRate..MaxRate

\* the effect that is committed and yet to run after a handler: the effect
\* of the render the handler caused, when that render changed a dependency
EffectAfterHandler ==
    IF effectDeps' # effectDeps
    THEN Some(Closure(document', audioUrl', selectedVoice', playbackSpeed',
                      isListening'))
    ELSE Null

\* React renders after a handler changed the state: the effect of the
\* previous render, when it is yet to run, runs first
RecognizerAfterRender ==
    IF effect = Null THEN recognition
    ELSE [closure |-> effect[1], started |-> FALSE]

\* the events that run of the pending effect queues
RenderEvents == IF effect = Null THEN { <<>> } ELSE AbortEvents(recognition)

\* the render after a handler that left queue to dispatch
RenderAfterHandler(queue) ==
    /\ recognition' = RecognizerAfterRender
    /\ effect' = EffectAfterHandler
    /\ \E ended \in RenderEvents : events' = queue \o ended

\* the recognition effect runs
EffectRuns ==
    /\ RecognitionEffect
    /\ UNCHANGED << clientVars, proxyVars, voiceChangedSincePlay >>

\* a recognizer can be started while the events of its session have room
EventsHaveRoom == Len(events) + 2 <= MaxEvents

\* a click on the Voice Commands button
ClickVoiceCommands ==
    /\ effect = Null
    /\ isListening \/ EventsHaveRoom
    /\ ToggleVoiceCommands
    /\ UNCHANGED << clientVars, proxyVars, voiceChangedSincePlay >>

\* the speed slider is moved
MoveSpeedSlider ==
    /\ effect = Null
    /\ DocumentCardShown
    /\ \E speed \in SliderValues \ { playbackSpeed } : HandleSpeedChange(speed)
    /\ UNCHANGED << isListening, recognition, events, proxyVars,
                    voiceChangedSincePlay >>
    /\ effect' = EffectAfterHandler

\* the started recognizer delivers a final transcript; when onresult changed
\* the component's state React renders again, running a pending effect first
Hears(transcript) ==
    /\ recognition.started
    /\ OnResult(BranchOf[transcript], recognition.closure)
    /\ voiceChangedSincePlay' =
           (voiceChangedSincePlay /\ BranchOf[transcript] # "play")
    /\ UNCHANGED isListening
    /\ IF reactState' = reactState
       THEN UNCHANGED << recognition, effect, events >>
       ELSE RenderAfterHandler(events)
    /\ UNCHANGED proxyVars

Hear == \E transcript \in Transcripts : Hears(transcript)

OnErrorKeepsListening == UNCHANGED isListening

\* recognition.onerror
OnError == isListening' = FALSE

OnEndWhateverTheFlag(listening) ==
    recognition' = [recognition EXCEPT !.started = TRUE]

\* recognition.onend of a recognizer whose closure holds isListening;
\* start() throws on a recognizer that is started
OnEnd(listening) ==
    recognition' = IF listening /\ ~recognition.started
                   THEN [recognition EXCEPT !.started = TRUE]
                   ELSE recognition

\* the session of the started recognizer ends without a call of the client
\* (silence, the network, the service), with or without an error
SessionEnds ==
    /\ recognition.started
    /\ recognition' = [recognition EXCEPT !.started = FALSE]
    /\ \E ended \in AbortEvents(recognition) : events' = events \o ended
    /\ UNCHANGED << isListening, effect, clientVars, proxyVars,
                    voiceChangedSincePlay >>

\* the error event at the head of the queue is dispatched; React renders
\* again when the flag changed
FireError ==
    /\ events # <<>>
    /\ Head(events).type = "error"
    /\ OnError
    /\ UNCHANGED << clientVars, proxyVars, voiceChangedSincePlay >>
    /\ IF reactState' = reactState
       THEN UNCHANGED << recognition, effect >> /\ events' = Tail(events)
       ELSE RenderAfterHandler(Tail(events))

\* the end event at the head of the queue is dispatched
FireEnd ==
    /\ events # <<>>
    /\ Head(events).type = "end"
    /\ Head(events).isListening /\ ~recognition.started =>
           Len(Tail(events)) + 2 <= MaxEvents
    /\ OnEnd(Head(events).isListening)
    /\ events' = Tail(events)
    /\ UNCHANGED << isListening, effect, clientVars, proxyVars,
                    voiceChangedSincePlay >>

\* the file the user of this specification uploads
ListenFile == [name |-> "a.txt", content |-> "alpha"]

\* the user of this specification uploads into the empty page, while nothing
\* is in flight
UploadsAtRest ==
    /\ document = Null
    /\ fetches = EmptyBag
    /\ reads = EmptyBag
    /\ SelectFile
    /\ BagIn(ListenFile, reads')

\* the steps of the playback controller with one file and one voice, the
\* progress of the playback left out: no effect is pending when a click or a
\* completion is handled
ControllerStep ==
    /\ effect = Null
    /\ \/ UploadsAtRest
       \/ ReadCompletes
       \/ ClickPlay
       \/ PlayStarts
       \/ SynthesisCompletes
       \/ ClickPause
       \/ ClickStop
       \/ ClickClear

\* the user of this specification acts, and the requests complete, when no
\* event of a recognizer waits for its dispatch
UserStep ==
    /\ events = <<>>
    /\ \/ ControllerStep
       \/ MoveSpeedSlider
       \/ ClickVoiceCommands

ListenNext ==
    \/ UserStep
    \/ EffectRuns
    \/ Hear
    \/ SessionEnds
    \/ FireError
    \/ FireEnd

ListenSpec == Init /\ [][ListenNext]_vars

\* the voice commands of the page without a document, the events of the
\* recognizers dispatched at any time
SessionNext ==
    \/ ClickVoiceCommands
    \/ EffectRuns
    \/ Hear
    \/ SessionEnds
    \/ FireError
    \/ FireEnd

SessionSpec == Init /\ [][SessionNext]_vars

----------------------------------------------------------------------------
(* Values of the serverless handlers *)

\* the truncation limit of the convert handlers, in characters
maxChars == 5000

\* how far beyond maxChars the longest request text goes
ExtraChars == 2

\* a string is the sequence of its character codes; this one has n of them
TextOfLength(n) == [i \in 1..n |-> 97 + (i % 5)]

\* !x of a value that is absent (Null) or a string <<s>>
IsFalsy(x) == x = Null \/ x[1] = ""

\* response.ok
IsOk(status) == status >= 200 /\ status <= 299

\* the three headers the handlers answer a pre-flight with
CorsHeaders(methods) ==
    { << "Access-Control-Allow-Origin", "*" >>,
      << "Access-Control-Allow-Methods", methods >>,
      << "Access-Control-Allow-Headers", "Content-Type" >> }

\* the header res.json() adds
JsonContentType == { << "Content-Type", "application/json; charset=utf-8" >> }

\* what a handler run yields: the upstream calls made and the response
Outcome(calls, status, body, headers) ==
    [calls |-> calls,
     response |-> [status |-> status, body |-> body, headers |-> headers]]

\* the body { error: message }; a message is the sequence of its fragments
ErrorBody(message) == Some([error |-> message])

\* the six bits of a base64 digit are kept as a number 0..63; 64 is '='
Base64Pad == 64

RECURSIVE Base64Encode(_)
\* base64 of a sequence of bytes
Base64Encode(bytes) ==
    IF Len(bytes) = 0 THEN <<>>
    ELSE IF Len(bytes) = 1 THEN
        << bytes[1] \div 4, (bytes[1] % 4) * 16, Base64Pad, Base64Pad >>
    ELSE IF Len(bytes) = 2 THEN
        << bytes[1] \div 4,
           (bytes[1] % 4) * 16 + bytes[2] \div 16,
           (bytes[2] % 16) * 4,
           Base64Pad >>
    ELSE
        << bytes[1] \div 4,
           (bytes[1] % 4) * 16 + bytes[2] \div 16,
           (bytes[2] % 16) * 4 + bytes[3] \div 64,
           bytes[3] % 64 >>
        \o Base64Encode(SubSeq(bytes, 4, Len(bytes)))

RECURSIVE Atob(_)
\* atob(data.audio): the binary string four base64 digits at a time
Atob(digits) ==
    IF Len(digits) = 0 THEN <<>>
    ELSE
        LET first == digits[1] * 4 + digits[2] \div 16
            second == (digits[2] % 16) * 16 + digits[3] \div 4
            third == (digits[3] % 4) * 64 + digits[4]
        IN  (IF digits[3] = Base64Pad THEN << first >>
             ELSE IF digits[4] = Base64Pad THEN << first, second >>
             ELSE << first, second, third >>)
            \o Atob(SubSeq(digits, 5, Len(digits)))

\* byteNumbers[i] = byteCharacters.charCodeAt(i), stored in a Uint8Array
ByteNumbers(byteCharacters) ==
    [i \in 1..Len(byteCharacters) |-> byteCharacters[i] % 256]

\* String.fromCharCode of each byte, concatenated
BinaryString(bytes) == [i \in 1..Len(bytes) |-> bytes[i]]

Latin1BytesSevenBit(binary) == [i \in 1..Len(binary) |-> binary[i] % 128]

\* Buffer.from(binary, 'binary'): the low byte of each character code
Latin1Bytes(binary) == [i \in 1..Len(binary) |-> binary[i] % 256]

\* !text || text.length === 0, of the text field of the body
TextIsMissingKeepsEmpty(text) == text = Null

TextIsMissing(text) == text = Null \/ Len(text[1]) = 0

TruncateOneShort(text) ==
    IF Len(text) > maxChars THEN SubSeq(text, 1, maxChars - 1) ELSE text

\* text.length > maxChars ? text.substring(0, maxChars) : text
Truncate(text) ==
    IF Len(text) > maxChars THEN SubSeq(text, 1, maxChars) ELSE text

\* voiceId || '21m00Tcm4TlvDq8ikWAM'
VoiceOrDefault(voiceId) == IF IsFalsy(voiceId) THEN RachelId ELSE voiceId[1]

\* the fetch of the provider's text-to-speech endpoint; voice_settings are
\* kept as their literals
SynthesisCall(voice, key, text) ==
    [url |-> << "https://api.elevenlabs.io/v1/text-to-speech/", voice >>,
     method |-> "POST",
     headers |-> { << "Accept", "audio/mpeg" >>,
                   << "Content-Type", "application/json" >>,
                   << "xi-api-key", key >> },
     body |-> [text |-> text,
               model_id |-> "eleven_monolingual_v1",
               voice_settings |-> [stability |-> "0.5",
                                   similarity_boost |-> "0.75"]]]

\* `ElevenLabs error: ${response.status}`
UpstreamErrorMessage(status) == << "ElevenLabs error: ", ToString(status) >>

----------------------------------------------------------------------------
(* POST /api/tts/convert, the buffered handler (req, res) *)

BufferedRelayEchoingBody(calls, up) ==
    Outcome(calls, up.status, ErrorBody(<< up.text >>),
            CorsHeaders("POST, OPTIONS") \cup JsonContentType)

\* lines 61-79: the upstream response is relayed
BufferedRelay(calls, up) ==
    LET headers == CorsHeaders("POST, OPTIONS") \cup JsonContentType IN
    IF ~IsOk(up.status)
    THEN Outcome(calls, up.status, ErrorBody(UpstreamErrorMessage(up.status)),
                 headers)
    ELSE Outcome(calls, 200,
                 Some([audio |-> Base64Encode(Latin1Bytes(BinaryString(up.bytes))),
                       contentType |-> "audio/mpeg"]),
                 headers)

\* lines 28-59: the credential check and the upstream call
BufferedForward(text, voiceId, key, up) ==
    LET headers == CorsHeaders("POST, OPTIONS") \cup JsonContentType
        call == SynthesisCall(VoiceOrDefault(voiceId), key[1], Truncate(text))
    IN
    IF IsFalsy(key)
    THEN Outcome(<<>>, 500, ErrorBody(<< "API key not configured" >>), headers)
    ELSE IF up.fails
         THEN Outcome(<< call >>, 500, ErrorBody(<< up.text >>), headers)
         ELSE BufferedRelay(<< call >>, up)

\* the whole handler
ConvertBuffered(req, key, up) ==
    LET cors == CorsHeaders("POST, OPTIONS")
        headers == cors \cup JsonContentType
    IN
    IF req.method = "OPTIONS" THEN Outcome(<<>>, 200, Null, cors)
    ELSE IF req.method # "POST"
    THEN Outcome(<<>>, 405, ErrorBody(<< "Method not allowed" >>), headers)
    ELSE IF req.body = Null
    THEN \* destructuring req.body throws inside the try block
         Outcome(<<>>, 500,
                 ErrorBody(<< "Cannot destructure property 'text' of 'req.body'" >>),
                 headers)
    ELSE IF TextIsMissing(req.body[1].text)
    THEN Outcome(<<>>, 400, ErrorBody(<< "Text is required" >>), headers)
    ELSE BufferedForward(req.body[1].text[1], req.body[1].voiceId, key, up)

----------------------------------------------------------------------------
(* POST /api/tts/convert, the edge handler (request) => Response *)

\* the headers of the edge handler's JSON responses inside the try block
EdgeJsonHeaders ==
    { << "Content-Type", "application/json" >>,
      << "Access-Control-Allow-Origin", "*" >> }

\* the value fetch sends for a header whose value is undefined
HeaderValue(key) == IF key = Null THEN "undefined" ELSE key[1]

\* lines 155-180: the upstream response is relayed
EdgeRelay(calls, up) ==
    IF ~IsOk(up.status)
    THEN Outcome(calls, up.status, ErrorBody(UpstreamErrorMessage(up.status)),
                 EdgeJsonHeaders)
    ELSE Outcome(calls, 200,
                 Some([audio |-> Base64Encode(BinaryString(up.bytes)),
                       contentType |-> "audio/mpeg"]),
                 EdgeJsonHeaders)

\* lines 128-153: the upstream call, made whatever the credential is
EdgeForward(text, voiceId, key, up) ==
    LET call == SynthesisCall(VoiceOrDefault(voiceId), HeaderValue(key),
                              Truncate(text))
    IN
    IF up.fails
    THEN Outcome(<< call >>, 500, ErrorBody(<< up.text >>), EdgeJsonHeaders)
    ELSE EdgeRelay(<< call >>, up)

\* the whole handler
ConvertEdge(req, key, up) ==
    IF req.method = "OPTIONS"
    THEN Outcome(<<>>, 200, Null, CorsHeaders("POST, OPTIONS"))
    ELSE IF req.method # "POST"
    THEN Outcome(<<>>, 405, ErrorBody(<< "Method not allowed" >>),
                 { << "Content-Type", "application/json" >> })
    ELSE IF req.body = Null
    THEN \* request.json() rejects inside the try block
         Outcome(<<>>, 500, ErrorBody(<< "Unexpected end of JSON input" >>),
                 EdgeJsonHeaders)
    ELSE IF TextIsMissing(req.body[1].text)
    THEN Outcome(<<>>, 400, ErrorBody(<< "Text is required" >>),
                 EdgeJsonHeaders)
    ELSE EdgeForward(req.body[1].text[1], req.body[1].voiceId, key, up)

----------------------------------------------------------------------------
(* One request to /api/tts/convert *)

\* the values of process.env.ELEVENLABS_API_KEY
Keys == { Null, << "" >>, << "sk_51f0a9" >>, << "sk_51f0a9c27e4d" >> }

\* the characters of a key
Characters(key) ==
    CASE key = "sk_51f0a9" ->
             << "s", "k", "_", "5", "1", "f", "0", "a", "9" >>
      [] key = "sk_51f0a9c27e4d" ->
             << "s", "k", "_", "5", "1", "f", "0", "a", "9", "c", "2", "7",
                "e", "4", "d" >>
      [] OTHER -> <<>>

\* the request texts: absent, empty, short, and around the limit
RequestTexts ==
    { Null } \cup
    { Some(TextOfLength(n)) :
        n \in { 0, 1, 2, maxChars - 1, maxChars, maxChars + 1,
                maxChars + ExtraChars } }

\* the request bodies: none that parses, or { text?, voiceId? }
ConvertBodies ==
    { Null } \cup
    { Some([text |-> t, voiceId |-> v]) :
        t \in RequestTexts, v \in { Null, << "AZnzlk1XvdvUeBnXmlld" >> } }

ConvertRequests ==
    { [method |-> m, url |-> "/api/tts/convert", body |-> b] :
        m \in { "OPTIONS", "POST", "GET", "PUT" }, b \in ConvertBodies }

\* the audio payloads of a successful synthesis
AudioPayloads ==
    { <<>>, << 255 >>, << 77, 97 >>, << 73, 68, 51 >>, << 255, 251, 144, 0 >>,
      << 0, 128, 63, 64, 191 >>, << 255, 243, 72, 196, 0, 3 >> }

\* what the provider does with a synthesis call: the fetch fails (text is
\* the error's message), or it answers with a status and a body
ConvertUpstreams ==
    { [fails |-> TRUE, status |-> 0, text |-> "fetch failed", bytes |-> <<>>] }
    \cup
    { [fails |-> FALSE, status |-> st, text |-> tx, bytes |-> <<>>] :
        st \in { 401, 429, 500 },
        tx \in { "{detail: {status: quota_exceeded}}", "Internal Server Error" } }
    \cup
    { [fails |-> FALSE, status |-> 200, text |-> "", bytes |-> b] :
        b \in AudioPayloads }

ConvertInit ==
    /\ ClientInit
    /\ ListenInit
    /\ voiceChangedSincePlay = FALSE
    /\ env \in Keys
    /\ request \in ConvertRequests
    /\ upstream \in ConvertUpstreams
    /\ upstreamCalls = <<>>
    /\ response = Null
    /\ handledBy = ""

\* the deployment runs the buffered handler on the request
RunConvertBuffered ==
    /\ request.url = "/api/tts/convert"
    /\ response = Null
    /\ handledBy' = "buffered"
    /\ upstreamCalls' = ConvertBuffered(request, env, upstream).calls
    /\ response' = Some(ConvertBuffered(request, env, upstream).response)
    /\ UNCHANGED << env, request, upstream, clientVars, voiceChangedSincePlay,
                    listenVars >>

\* the deployment runs the edge handler on the request
RunConvertEdge ==
    /\ request.url = "/api/tts/convert"
    /\ response = Null
    /\ handledBy' = "edge"
    /\ upstreamCalls' = ConvertEdge(request, env, upstream).calls
    /\ response' = Some(ConvertEdge(request, env, upstream).response)
    /\ UNCHANGED << env, request, upstream, clientVars, voiceChangedSincePlay,
                    listenVars >>

ConvertNext == RunConvertBuffered \/ RunConvertEdge

ConvertSpec == ConvertInit /\ [][ConvertNext]_vars

----------------------------------------------------------------------------
(* GET /api/tts/voices *)

\* the list of the catch block
CatchVoices == << DefaultVoices[1], DefaultVoices[2], DefaultVoices[3] >>

VoicesWithoutKeyShort == CatchVoices

\* the list answered when no API key is configured
VoicesWithoutKey == DefaultVoices

\* the list answered when the upstream response is not ok
VoicesOnUpstreamError == DefaultVoices

\* the fetch of the provider's list of voices
VoicesCall(key) ==
    [url |-> << "https://api.elevenlabs.io/v1/voices" >>,
     method |-> "GET",
     headers |-> { << "Accept", "application/json" >>,
                   << "xi-api-key", key >> }]

\* data.voices.map(...): the provider's records in the client's shape
MapVoices(list) ==
    [i \in 1..Len(list) |->
        [id |-> list[i].voice_id,
         name |-> list[i].name,
         category |-> IF IsFalsy(list[i].category)
                      THEN "custom" ELSE list[i].category[1]]]

\* lines 38-77: the upstream call and what becomes of its result
VoicesForward(key, up) ==
    LET headers == CorsHeaders("GET, OPTIONS") \cup JsonContentType
        calls == << VoicesCall(key[1]) >>
    IN
    IF up.fails
    THEN Outcome(calls, 200, Some(CatchVoices), headers)
    ELSE IF ~IsOk(up.status)
    THEN Outcome(calls, 200, Some(VoicesOnUpstreamError), headers)
    ELSE IF up.json = Null \/ up.json[1].voices = Null
    THEN \* response.json() or data.voices.map throws
         Outcome(calls, 200, Some(CatchVoices), headers)
    ELSE Outcome(calls, 200, Some(MapVoices(up.json[1].voices[1])), headers)

VoicesHandlerUngated(req, key, up) ==
    LET cors == CorsHeaders("GET, OPTIONS")
        headers == cors \cup JsonContentType
    IN
    IF req.method = "OPTIONS" THEN Outcome(<<>>, 200, Null, cors)
    ELSE IF IsFalsy(key)
    THEN Outcome(<<>>, 200, Some(VoicesWithoutKey), headers)
    ELSE VoicesForward(key, up)

\* the whole handler
VoicesHandler(req, key, up) ==
    LET cors == CorsHeaders("GET, OPTIONS")
        headers == cors \cup JsonContentType
    IN
    IF req.method = "OPTIONS" THEN Outcome(<<>>, 200, Null, cors)
    ELSE IF req.method # "GET"
    THEN Outcome(<<>>, 405, ErrorBody(<< "Method not allowed" >>), headers)
    ELSE IF IsFalsy(key)
    THEN Outcome(<<>>, 200, Some(VoicesWithoutKey), headers)
    ELSE VoicesForward(key, up)

----------------------------------------------------------------------------
(* One request to /api/tts/voices *)

VoicesRequests ==
    { [method |-> m, url |-> "/api/tts/voices", body |-> Null] :
        m \in { "OPTIONS", "GET", "POST", "PUT", "DELETE" } }

\* voices as the provider lists them
ProviderVoices ==
    { <<>>,
      << [voice_id |-> "21m00Tcm4TlvDq8ikWAM", name |-> "Rachel",
          category |-> Some("premade")] >>,
      << [voice_id |-> "zXw9cloned", name |-> "My voice", category |-> Null] >>,
      << [voice_id |-> "21m00Tcm4TlvDq8ikWAM", name |-> "Rachel",
          category |-> Some("premade")],
         [voice_id |-> "zXw9cloned", name |-> "My voice",
          category |-> Some("cloned")] >> }

\* what the provider does with a list call: the fetch fails, or it answers
\* with a status and a body, which is JSON (<<data>>) or does not parse (Null)
VoicesUpstreams ==
    { [fails |-> TRUE, status |-> 0, json |-> Null] }
    \cup
    { [fails |-> FALSE, status |-> st, json |-> Null] : st \in { 401, 500, 503 } }
    \cup
    { [fails |-> FALSE, status |-> 200, json |-> j] :
        j \in { Null, Some([voices |-> Null]) } \cup
              { Some([voices |-> Some(l)]) : l \in ProviderVoices } }

VoicesInit ==
    /\ ClientInit
    /\ ListenInit
    /\ voiceChangedSincePlay = FALSE
    /\ env \in Keys
    /\ request \in VoicesRequests
    /\ upstream \in VoicesUpstreams
    /\ upstreamCalls = <<>>
    /\ response = Null
    /\ handledBy = ""

\* the deployment runs the handler on the request
RunVoicesHandler ==
    /\ request.url = "/api/tts/voices"
    /\ response = Null
    /\ handledBy' = "voices"
    /\ upstreamCalls' = VoicesHandler(request, env, upstream).calls
    /\ response' = Some(VoicesHandler(request, env, upstream).response)
    /\ UNCHANGED << env, request, upstream, clientVars, voiceChangedSincePlay,
                    listenVars >>

VoicesNext == RunVoicesHandler

VoicesSpec == VoicesInit /\ [][VoicesNext]_vars

----------------------------------------------------------------------------
(* One request to either route of the proxy *)

ProxyInit == ConvertInit \/ VoicesInit

ProxyNext == ConvertNext \/ VoicesNext

ProxySpec == ProxyInit /\ [][ProxyNext]_vars

----------------------------------------------------------------------------
(* The debug endpoint (convert.js 197-209) *)

\* process.env.NODE_ENV and process.env.VERCEL_ENV of the deployment
NodeEnv == "production"

VercelEnv == "production"

\* apiKey.substring(0, 10)
KeyPrefix(chars) ==
    SubSeq(chars, 1, IF Len(chars) < 10 THEN Len(chars) ELSE 10)

\* the whole handler: it reads neither the method nor the body
DebugHandler(req, key, up) ==
    Outcome(<<>>, 200,
            Some([hasApiKey |-> ~IsFalsy(key),
                  apiKeyLength |->
                      IF IsFalsy(key) THEN 0 ELSE Len(Characters(key[1])),
                  apiKeyPrefix |->
                      IF IsFalsy(key)
                      THEN << "n", "o", "t", " ", "s", "e", "t" >>
                      ELSE KeyPrefix(Characters(key[1])) \o << ".", ".", "." >>,
                  nodeEnv |-> NodeEnv,
                  vercelEnv |-> VercelEnv]),
            { << "Access-Control-Allow-Origin", "*" >> } \cup JsonContentType)

\* the debug endpoint is taken to be served next to the other two
DebugRequests ==
    { [method |-> m, url |-> "/api/tts/debug", body |-> Null] :
        m \in { "OPTIONS", "GET", "POST" } }

DebugInit ==
    /\ ClientInit
    /\ ListenInit
    /\ voiceChangedSincePlay = FALSE
    /\ env \in Keys
    /\ request \in DebugRequests
    /\ upstream = [fails |-> FALSE, status |-> 0]
    /\ upstreamCalls = <<>>
    /\ response = Null
    /\ handledBy = ""

\* the deployment runs the debug handler on the request
RunDebugHandler ==
    /\ request.url = "/api/tts/debug"
    /\ response = Null
    /\ handledBy' = "debug"
    /\ upstreamCalls' = DebugHandler(request, env, upstream).calls
    /\ response' = Some(DebugHandler(request, env, upstream).response)
    /\ UNCHANGED << env, request, upstream, clientVars, voiceChangedSincePlay,
                    listenVars >>

----------------------------------------------------------------------------
(* One request to any handler of api/tts *)

ApiInit == ProxyInit \/ DebugInit

ApiNext == ProxyNext \/ RunDebugHandler

ApiSpec == ApiInit /\ [][ApiNext]_vars

\* the handler that answered, as a function of request, key and upstream
HandlerOf(name, req, key, up) ==
    CASE name = "buffered" -> ConvertBuffered(req, key, up)
      [] name = "edge" -> ConvertEdge(req, key, up)
      [] name = "voices" -> VoicesHandler(req, key, up)
      [] name = "debug" -> DebugHandler(req, key, up)

----------------------------------------------------------------------------
(* Claims about POST /api/tts/convert *)

\* the request was a POST with a JSON object as its body, and was answered
AnsweredPost ==
    response # Null /\ request.method = "POST" /\ request.body # Null

C6_ForwardedTextIsInputCutAt5000 ==
    (AnsweredPost /\ request.body[1].text # Null
                  /\ request.body[1].text[1] # <<>>) =>
        LET text == request.body[1].text[1] IN
        /\ Len(upstreamCalls) <= 1
        /\ (handledBy = "edge" \/ ~IsFalsy(env)) => Len(upstreamCalls) = 1
        /\ \A i \in 1..Len(upstreamCalls) :
              LET sent == upstreamCalls[i].body.text IN
              /\ Len(sent) = IF Len(text) <= 5000 THEN Len(text) ELSE 5000
              /\ \A k \in 1..Len(sent) : sent[k] = text[k]

\* C6 happens: a text longer than the limit was forwarded
C6_Witness ==
    /\ AnsweredPost
    /\ request.body[1].text # Null
    /\ Len(request.body[1].text[1]) > 5000
    /\ Len(upstreamCalls) = 1
    /\ Len(upstreamCalls[1].body.text) = 5000

\* C9: with no API key in the environment, a POST with a non-empty text is
\* answered with status 500 and an error body by every convert handler.
C9_MissingKeyIsConfigurationError ==
    (AnsweredPost /\ env = Null /\ request.body[1].text # Null
                  /\ request.body[1].text[1] # <<>>) =>
        /\ response[1].status = 500
        /\ response[1].body # Null
        /\ DOMAIN response[1].body[1] = { "error" }

\* C10: when the upstream call answers with a non-success status S, the
\* response has status S and a body { error } whose message holds the
\* status but not the upstream error body.
C10_UpstreamErrorRelayedWithGenericMessage ==
    (response # Null /\ upstreamCalls # <<>> /\ ~upstream.fails
                     /\ ~IsOk(upstream.status)) =>
        /\ response[1].status = upstream.status
        /\ response[1].body # Null
        /\ DOMAIN response[1].body[1] = { "error" }
        /\ \A k \in 1..Len(response[1].body[1].error) :
              response[1].body[1].error[k] # upstream.text

\* C10 happens: either handler relayed a 429
C10_Witness ==
    /\ response # Null
    /\ upstreamCalls # <<>>
    /\ ~upstream.fails
    /\ upstream.status = 429
    /\ handledBy = "buffered"
    /\ response[1].status = 429

----------------------------------------------------------------------------
(* Claims about the playback controller *)

\* C1: whenever a cached audio handle exists (audioUrl is not null) it was
\* synthesized from the content of the current document and with the
\* currently selected voice.
C1_CachedAudioMatchesDocumentAndVoice ==
    audioUrl # Null =>
        /\ document # Null
        /\ audioUrl[1].text = document[1].content
        /\ audioUrl[1].voiceId = selectedVoice

\* C2: at most one synthesis request (call of /api/tts/convert) is in flight
\* at any time.
C2_AtMostOneSynthesisInFlight == BagCardinality(fetches) <= 1

\* C3: a stop request moves the state to ready only from playing or paused;
\* from every other state, ready included, it changes neither the state nor
\* the progress nor the status message.
C3_StopOnlyFromPlayingOrPaused ==
    [][ClickStop =>
          IF appState \in {"playing", "paused"}
          THEN appState' = "ready"
          ELSE UNCHANGED << appState, progress, statusMessage >>]_vars

\* C4: a voice change clears the cached audio and leaves appState as it is,
\* and the next play request after a voice change made while cached audio
\* existed sends a new synthesis request carrying the selected voice.
C4_VoiceChangeForcesResynthesis ==
    [][/\ SelectVoice => (audioUrl' = Null /\ appState' = appState)
       /\ (ClickPlay /\ voiceChangedSincePlay) =>
              fetches' = fetches (+) SetToBag(
                  {ConvertRequest(document[1], selectedVoice, playbackSpeed)})
      ]_vars

\* C15: a click on the clear button, in whatever state, leaves appState
\* idle, no document, no cached audio and progress 0.
C15_ClearLeavesIdleAndEmpty ==
    [][ClickClear =>
          /\ appState' = "idle"
          /\ document' = Null
          /\ audioUrl' = Null
          /\ progress' = 0]_vars

\* C15 happens: the document was cleared while its synthesis was in flight
C15_Witness ==
    /\ document = Null
    /\ appState = "idle"
    /\ audioUrl = Null
    /\ progress = 0
    /\ BagCardinality(fetches) = 1
    /\ audio.src = Null

\* C20: when a synthesis request completes, with success or with failure,
\* after the document was cleared (no document, yet the request is still in
\* flight), the completion changes neither appState nor the cached audio
\* handle and starts no playback.
C20_CompletionAfterClearIsIgnored ==
    [][((SynthesisCompletes \/ SynthesisErrors) /\ document = Null) =>
          /\ appState' = appState
          /\ audioUrl' = audioUrl
          /\ audio'.paused = audio.paused]_vars

\* the audio element is producing sound: it has a source, is not paused, its
\* play() is settled and the end is not reached
Sounding ==
    /\ audio.src # Null
    /\ ~audio.paused
    /\ playPromises = 0
    /\ audio.currentTime < Duration

\* C26: the audio element produces sound only while appState is playing.
C26_SoundOnlyWhilePlaying == Sounding => appState = "playing"

\* C21: when every read and every synthesis request settles, processing is
\* always followed by playing, ready, idle or error, and uploading by ready,
\* idle or error; a failed read and a failed synthesis set error.
C21_ProcessingAndUploadingEnd ==
    /\ (appState = "processing") ~>
           (appState \in {"playing", "ready", "idle", "error"})
    /\ (appState = "uploading") ~> (appState \in {"ready", "idle", "error"})
    /\ [][(ReadFails \/ SynthesisErrors) => appState' = "error"]_vars

\* C21 happens: a synthesis failed, nothing is in flight any more and the
\* client shows the error
C21_Witness ==
    /\ appState = "error"
    /\ statusMessage = "Failed to generate audio"
    /\ document # Null
    /\ fetches = EmptyBag
    /\ ~isConverting

----------------------------------------------------------------------------
(* Claims about the speed control and the voice commands *)

\* C16: playbackSpeed and the playbackRate of the audio element are always
\* whole numbers of quarters from 0.5 (2 quarters) to 2.0 (8 quarters).
C16_SpeedStaysWithinHalfAndDouble ==
    /\ playbackSpeed \in 2..8
    /\ audio.playbackRate \in 2..8

\* C16 happens: the speed is at its minimum with no document, where the
\* slider is not shown
C16_Witness ==
    /\ playbackSpeed = 2
    /\ audio.playbackRate = 2
    /\ document = Null
    /\ recognition.started

\* what the claims expect of the transcripts: the earliest rule that matches
PlayTranscripts == { PleasePlayNow, StopPlaying, StartReading }

PauseTranscripts == { PauseSpaced, StopNow }

FasterTranscripts == { SpeedUp, FasterLoud, FasterThenSlower }

SlowerTranscripts == { CanYouGoSlower, SlowDown }

\* a step that changes the speed and nothing else of the client
OnlySpeedChanges ==
    UNCHANGED << appState, document, audioUrl, progress, statusMessage,
                 selectedVoice, voices, isLoadingVoices, isConverting,
                 showVoiceDropdown, fetches, reads, playPromises >>

\* C17: a final transcript runs exactly the command of the earliest rule it
\* matches (play/start, pause/stop, faster/speed up, slower/slow down) and
\* no other; "please play now" is one play request; a transcript matching
\* no rule changes nothing of the client.
C17_FirstMatchingRuleAlone ==
    [][\A t \in Transcripts :
          Hears(t) =>
              /\ t \in PlayTranscripts =>
                     /\ HandlePlay(recognition.closure.document,
                                   recognition.closure.audioUrl,
                                   recognition.closure.selectedVoice,
                                   recognition.closure.playbackSpeed)
                     /\ BagCardinality(fetches') <= BagCardinality(fetches) + 1
              /\ t \in PauseTranscripts =>
                     /\ appState' = "paused"
                     /\ audio'.paused
                     /\ playbackSpeed' = playbackSpeed
                     /\ fetches' = fetches
              /\ t \in FasterTranscripts =>
                     OnlySpeedChanges /\ playbackSpeed' >= playbackSpeed
              /\ t \in SlowerTranscripts =>
                     OnlySpeedChanges /\ playbackSpeed' <= playbackSpeed
              /\ t = Hello => UNCHANGED clientVars]_vars

\* C17 happens: a second synthesis request is in flight, which only a spoken
\* play can send while the play button is disabled
C17_Witness ==
    /\ BagCardinality(fetches) = 2
    /\ appState = "processing"
    /\ ~recognition.started

\* C18: a slower command sets the speed to max(s - 0.25, 0.5) and a faster
\* command to min(s + 0.25, 2.0), s being playbackSpeed when the transcript
\* arrives; the audio element's rate follows.
C18_SpeedCommandsStepFromCurrentSpeed ==
    [][\A t \in Transcripts :
          Hears(t) =>
              /\ t \in SlowerTranscripts =>
                     /\ playbackSpeed' =
                            IF playbackSpeed - 1 > 2 THEN playbackSpeed - 1 ELSE 2
                     /\ audio'.playbackRate = playbackSpeed'
              /\ t \in FasterTranscripts =>
                     /\ playbackSpeed' =
                            IF playbackSpeed + 1 < 8 THEN playbackSpeed + 1 ELSE 8
                     /\ audio'.playbackRate = playbackSpeed']_vars

\* C18 happens: "can you go slower" at 1.0 gave 0.75, with no document, so
\* that the slider was not at hand, and the effect of the new speed pending
C18_Witness ==
    /\ playbackSpeed = 3
    /\ audio.playbackRate = 3
    /\ document = Null
    /\ effect # Null
    /\ recognition.closure.playbackSpeed = 4

\* C19: appState becomes paused only from playing.
C19_PausedOnlyFromPlaying ==
    [][(appState' = "paused" /\ appState # "paused") =>
          appState = "playing"]_vars

\* C25: a spoken play does what handlePlay does with the document, the
\* cached audio, the voice and the speed of the moment the transcript
\* arrives, and a spoken pause does what handlePause does.
C25_VoicePlayActsOnCurrentState ==
    [][\A t \in Transcripts :
          Hears(t) =>
              /\ t \in PlayTranscripts =>
                     HandlePlay(document, audioUrl, selectedVoice, playbackSpeed)
              /\ t \in PauseTranscripts => HandlePause]_vars

----------------------------------------------------------------------------
(* Claims about the recognition session *)

\* C22: while voice commands are on (isListening) a recognition session that
\* ended is started again; so when the recognition effect has run and every
\* event of the recognizers is dispatched, a session is started.
C22_ListeningSessionIsRestarted ==
    (isListening /\ effect = Null /\ events = <<>>) => recognition.started

\* C23: toggling off clears isListening and leaves no session; while
\* isListening is false no recognizer is started, by an end event or
\* otherwise, except by toggling on, which sets isListening.
C23_NoRestartAfterToggleOff ==
    [][/\ (ClickVoiceCommands /\ isListening) =>
              (~isListening' /\ ~recognition'.started)
       /\ (~isListening /\ ~recognition.started /\ recognition'.started) =>
              (ClickVoiceCommands /\ isListening')
       /\ (FireEnd /\ ~isListening) => recognition' = recognition]_vars

\* C23 happens: voice commands were on, are off, and the end event of the
\* session they had started is yet to be dispatched
C23_Witness ==
    /\ ~isListening
    /\ effect = Null
    /\ ~recognition.closure.isListening
    /\ events # <<>>
    /\ Head(events).type = "end"

\* C24: the dispatch of an error event leaves isListening false and no
\* session; while isListening is false no session is started.
C24_ErrorStopsListening ==
    /\ [][FireError => (~isListening' /\ ~recognition'.started)]_vars
    /\ [](~isListening => ~recognition.started)

\* C24 happens: the session ended by itself with an error, during the
\* render of toggling on; the error cleared isListening, the recognizer of
\* that render is in place and the end event is yet to be dispatched
C24_Witness ==
    /\ ~isListening
    /\ recognition.closure.isListening
    /\ ~recognition.started
    /\ effect # Null
    /\ events = << [type |-> "end", isListening |-> FALSE] >>

----------------------------------------------------------------------------
(* Claims about GET /api/tts/voices *)

\* the names of the eight fallback voices, in order
FallbackNames ==
    << "Rachel", "Domi", "Bella", "Elli", "Josh", "Arnold", "Adam", "Sam" >>

\* list is the fallback catalogue: eight voices of category premade with
\* the fallback names and non-empty, distinct ids
IsFallbackList(list) ==
    /\ Len(list) = 8
    /\ \A i \in 1..Len(list) :
          /\ list[i].id # ""
          /\ list[i].name # ""
          /\ list[i].name = FallbackNames[i]
          /\ list[i].category = "premade"
    /\ \A i, j \in 1..Len(list) : list[i].id = list[j].id => i = j

\* C7: with no credential, a GET is answered with exactly the fallback list
\* of eight voices, each with an id, a name and the category premade.
C7_NoKeyGivesEightFallbackVoices ==
    (response # Null /\ request.method = "GET" /\ env = Null) =>
        /\ response[1].status = 200
        /\ response[1].body # Null
        /\ IsFallbackList(response[1].body[1])

\* C7 happens: a GET without credential was answered
C7_Witness ==
    /\ response # Null
    /\ request.method = "GET"
    /\ env = Null
    /\ upstreamCalls = <<>>
    /\ Len(response[1].body[1]) = 8

\* the upstream list call was made and failed: the fetch threw, the status
\* was not a success, or the body was not the expected JSON
UpstreamListFailed ==
    /\ response # Null
    /\ upstreamCalls # <<>>
    /\ \/ upstream.fails
       \/ ~IsOk(upstream.status)
       \/ upstream.json = Null
       \/ upstream.json[1].voices = Null

\* C8: when the upstream list call fails in any of these ways, the GET is
\* answered 200 with the same eight fallback voices as without credential.
C8_UpstreamFailureGivesEightFallbackVoices ==
    UpstreamListFailed =>
        /\ response[1].status = 200
        /\ response[1].body # Null
        /\ IsFallbackList(response[1].body[1])

----------------------------------------------------------------------------
(* Claims about both routes of the proxy *)

\* C11: when the upstream synthesis call succeeded and the proxy answered
\* 200, decoding the audio field as the client does (atob, then the code of
\* each character) gives the upstream bytes, same length and order.
C11_DecodedAudioIsUpstreamBytes ==
    (response # Null /\ upstreamCalls # <<>> /\ response[1].status = 200) =>
        /\ response[1].body # Null
        /\ ByteNumbers(Atob(response[1].body[1].audio)) = upstream.bytes

\* C11 happens: a payload with bytes above 127 and a padded last group went
\* through the buffered handler
C11_Witness ==
    /\ response # Null
    /\ handledBy = "buffered"
    /\ upstreamCalls # <<>>
    /\ response[1].status = 200
    /\ upstream.bytes = << 255, 251, 144, 0 >>
    /\ Len(response[1].body[1].audio) = 8

\* C12: every response of every handler carries the header
\* Access-Control-Allow-Origin: *.
C12_EveryResponseAllowsAnyOrigin ==
    response # Null =>
        << "Access-Control-Allow-Origin", "*" >> \in response[1].headers

\* the CORS headers among a response's headers
CorsOf(headers) ==
    { h \in headers : h[1] \in { "Access-Control-Allow-Origin",
                                 "Access-Control-Allow-Methods",
                                 "Access-Control-Allow-Headers" } }

\* C13: on the request, key and upstream outcome of the state, the buffered
\* and the edge handler give the same status, the same body and the same
\* CORS headers, and make the same upstream calls.
C13_VariantsAnswerAlike ==
    (response # Null /\ request.url = "/api/tts/convert") =>
        LET buffered == ConvertBuffered(request, env, upstream)
            edge == ConvertEdge(request, env, upstream)
        IN  /\ response[1] \in { buffered.response, edge.response }
            /\ buffered.response.status = edge.response.status
            /\ buffered.response.body = edge.response.body
            /\ CorsOf(buffered.response.headers) = CorsOf(edge.response.headers)
            /\ buffered.calls = edge.calls

\* the method a route serves besides OPTIONS
ServedMethod(url) == IF url = "/api/tts/voices" THEN "GET" ELSE "POST"

\* what the handler that answered gives for request req
AnswerTo(req) ==
    CASE handledBy = "buffered" -> ConvertBuffered(req, env, upstream).response
      [] handledBy = "edge" -> ConvertEdge(req, env, upstream).response
      [] handledBy = "voices" -> VoicesHandler(req, env, upstream).response

\* C14: on both routes an OPTIONS request is answered 200 with no body, any
\* method other than OPTIONS and the one the route serves is answered 405
\* with an error body, and in both cases no upstream call is made and the
\* answer does not depend on the request body.
C14_MethodsAreGatedBeforeAnyWork ==
    (response # Null /\ request.method # ServedMethod(request.url)) =>
        /\ IF request.method = "OPTIONS"
           THEN response[1].status = 200 /\ response[1].body = Null
           ELSE /\ response[1].status = 405
                /\ response[1].body # Null
                /\ DOMAIN response[1].body[1] = { "error" }
        /\ upstreamCalls = <<>>
        /\ \A b \in ConvertBodies :
              AnswerTo([request EXCEPT !.body = b]) = response[1]

\* C14 happens: the voices route refused a POST while a key was configured
C14_Witness ==
    /\ response # Null
    /\ handledBy = "voices"
    /\ request.method = "POST"
    /\ ~IsFalsy(env)
    /\ response[1].status = 405

----------------------------------------------------------------------------
(* Claims about every handler of api/tts *)

\* the keys that are configured
ConfiguredKeys == { key \in Keys : ~IsFalsy(key) }

\* C27: the response of a handler to a request, under a configured key, is
\* the response it gives to the same request with the same upstream
\* behaviour under any other configured key.
C27_ResponseIndependentOfKey ==
    (response # Null /\ env \in ConfiguredKeys) =>
        \A key \in ConfiguredKeys :
            HandlerOf(handledBy, request, key, upstream).response = response[1]

====
